---- MODULE Spec2Model ----
(***************************************************************************)
(* tools/create-release.py of gershnik/objc-helpers: the release script    *)
(* that promotes the "Unreleased" section of CHANGELOG.md to a version,    *)
(* writes the file back, and stages, commits and tags the result.          *)
(*                                                                         *)
(* Text is modelled as sequences of one-character strings, so that the     *)
(* regular expression, readlines() and writelines() are computed on the    *)
(* characters as Python computes them.                                     *)
(***************************************************************************)
EXTENDS Integers, Sequences, FiniteSets, TLC

\* Bounds of the model.
MaxLines == 2      \* lines of a document of the transformation specification
MaxDocLines == 2   \* lines of the initial CHANGELOG.md of the run specification
MaxRuns == 2       \* invocations of the script in one behaviour

(***************************************************************************)
(* String constants of the script.                                         *)
(***************************************************************************)
\* The literal part of the pattern r"^## Unreleased.*$" (line 20).
Literal == <<"#", "#", " ", "U", "n", "r", "e", "l", "e", "a", "s", "e", "d">>
\* f"## [{NEW_VER}] - {date.today().isoformat()}\n" (line 24).
HeadingOpen == <<"#", "#", " ", "[">>
HeadingMid == <<"]", " ", "-", " ">>
\* f'[{NEW_VER}]: https://github.com/gershnik/objc-helpers/releases/v{NEW_VER}\n' (line 28).
LinkMid == <<"]", ":", " ">>
ReleaseUrl == <<"h", "t", "t", "p", "s", ":", "/", "/", "g", "i", "t", "h", "u", "b", ".", "c", "o", "m", "/", "g", "e", "r", "s", "h", "n", "i", "k", "/", "o", "b", "j", "c", "-", "h", "e", "l", "p", "e", "r", "s", "/", "r", "e", "l", "e", "a", "s", "e", "s", "/", "v">>
\* f'chore: creating version {NEW_VER}' (line 34).
CommitPrefix == <<"c", "h", "o", "r", "e", ":", " ", "c", "r", "e", "a", "t", "i", "n", "g", " ", "v", "e", "r", "s", "i", "o", "n", " ">>
\* f'v{NEW_VER}' (line 35).
TagPrefix == <<"v">>
\* os.linesep of the platforms the repository targets (macOS, POSIX).
LineSep == <<"\n">>

(***************************************************************************)
(* Inputs.                                                                 *)
(***************************************************************************)
\* sys.argv[1]: version strings; NoArg stands for an empty argument list.
Versions == { <<"1", ".", "0">>, <<"2", ".", "1">> }
NoArg == <<"?", "n", "o", "a", "r", "g">>
\* date.today(): the system date.
Dates == { [year |-> 2024, month |-> 3, day |-> 15],
           [year |-> 2026, month |-> 11, day |-> 3] }

\* Line bodies a CHANGELOG.md is made of, with the terminator each is stored with.
WipBody == <<"#", "#", " ", "U", "n", "r", "e", "l", "e", "a", "s", "e", "d", " ", "-", " ", "w", "i", "p">>
IndentBody == <<" ", "#", "#", " ", "U", "n", "r", "e", "l", "e", "a", "s", "e", "d">>
H3Body == <<"#", "#", "#", " ", "U", "n", "r", "e", "l", "e", "a", "s", "e", "d">>
BracketBody == <<"#", "#", " ", "[", "U", "n", "r", "e", "l", "e", "a", "s", "e", "d", "]">>
PrefixedBody == <<"-", " ", "f", "i", "x", " ", "#", "#", " ", "U", "n", "r", "e", "l", "e", "a", "s", "e", "d">>
FixBody == <<"-", " ", "f", "i", "x">>
LF == <<"\n">>
CRLF == <<"\r", "\n">>

\* Stored lines of the transformation specification: matching lines (bare,
\* with trailing text, CRLF-terminated), near misses, a blank line.
RawLines ==
    { [body |-> Literal, eol |-> LF],
      [body |-> WipBody, eol |-> CRLF],
      [body |-> IndentBody, eol |-> LF],
      [body |-> H3Body, eol |-> LF],
      [body |-> BracketBody, eol |-> LF],
      [body |-> PrefixedBody, eol |-> LF],
      [body |-> <<>>, eol |-> LF] }
\* Stored lines of the run specification.
RunRawLines ==
    { [body |-> Literal, eol |-> LF],
      [body |-> WipBody, eol |-> CRLF],
      [body |-> FixBody, eol |-> LF] }

\* The sequences over S of length at most n.
SeqsUpTo(S, n) == UNION { [1..k -> S] : k \in 0..n }

\* The file contents made of the stored lines ls; when chop, the last line
\* has no terminator (a file that does not end with a newline).
RECURSIVE FileOf(_, _)
FileOf(ls, chop) ==
    IF ls = <<>> THEN <<>>
    ELSE IF Len(ls) = 1 /\ chop THEN ls[1].body
    ELSE ls[1].body \o ls[1].eol \o FileOf(Tail(ls), chop)

Files(S, n) == { FileOf(ls, chop) : ls \in SeqsUpTo(S, n), chop \in BOOLEAN }

(***************************************************************************)
(* Pure functions of the script.                                           *)
(***************************************************************************)
\* The concatenation of the sequences of ss, in order.
RECURSIVE Flat(_)
Flat(ss) ==
    IF ss = <<>> THEN <<>>
    ELSE IF Len(ss) = 1 THEN ss[1]
    ELSE LET h == Len(ss) \div 2
         IN Flat(SubSeq(ss, 1, h)) \o Flat(SubSeq(ss, h + 1, Len(ss)))

\* Text-mode reading (newline=None): "\r\n" and "\r" are translated to "\n".
Universal(s) ==
    IF \A i \in 1..Len(s) : s[i] # "\r" THEN s
    ELSE Flat([i \in 1..Len(s) |->
                 IF s[i] = "\r" THEN <<"\n">>
                 ELSE IF s[i] = "\n" /\ i > 1 /\ s[i - 1] = "\r" THEN <<>>
                 ELSE <<s[i]>>])

\* Splits translated text after every "\n"; each line keeps its terminator,
\* the last line has none when the text does not end with one.
RECURSIVE SplitLines(_)
SplitLines(s) ==
    IF s = <<>> THEN <<>>
    ELSE IF \A i \in 1..Len(s) : s[i] # "\n" THEN <<s>>
    ELSE LET e == CHOOSE i \in 1..Len(s) :
                      s[i] = "\n" /\ \A j \in 1..(i - 1) : s[j] # "\n"
         IN <<SubSeq(s, 1, e)>> \o SplitLines(SubSeq(s, e + 1, Len(s)))

\* change_log.readlines() of a file opened "rt" (lines 17-18).
ReadLines(content) == SplitLines(Universal(content))

\* Text-mode writing (newline=None): every "\n" is written as os.linesep.
Native(s) ==
    IF LineSep = <<"\n">> THEN s
    ELSE Flat([i \in 1..Len(s) |-> IF s[i] = "\n" THEN LineSep ELSE <<s[i]>>])

\* change_log.writelines(lines) on a file opened "wt" (lines 30-31): the
\* lines are written one after the other, nothing is added between them.
WriteLines(ls) == Flat([i \in 1..Len(ls) |-> Native(ls[i])])

\* re.fullmatch(r"^## Unreleased.*$", line, flags): "^" anchors at the first
\* character, the literal is consumed, ".*" consumes characters up to j
\* ("." matches "\n" only under re.DOTALL), "$" holds at the end of the
\* string or just before a final "\n", and fullmatch requires the match to
\* end at the end of the string.
FullMatch(line, dotall) ==
    \E j \in Len(Literal)..Len(line) :
        /\ SubSeq(line, 1, Len(Literal)) = Literal
        /\ \A k \in (Len(Literal) + 1)..j : dotall \/ line[k] # "\n"
        /\ j = Len(line) \/ (j = Len(line) - 1 /\ line[Len(line)] = "\n")
        /\ j = Len(line)

\* A bug the pattern test could have: re.search of the unanchored literal.
MatchesSearch(line) ==
    \E i \in 1..Len(line) :
        /\ i + Len(Literal) - 1 <= Len(line)
        /\ SubSeq(line, i, i + Len(Literal) - 1) = Literal

\* The test of line 20.
Matches(line) == FullMatch(line, TRUE)

DigitChars == <<"0", "1", "2", "3", "4", "5", "6", "7", "8", "9">>

\* n in decimal, zero-padded to w digits.
RECURSIVE Padded(_, _)
Padded(n, w) ==
    IF w = 0 THEN <<>>
    ELSE Padded(n \div 10, w - 1) \o <<DigitChars[(n % 10) + 1]>>

\* date.isoformat(): YYYY-MM-DD.
IsoFormat(d) ==
    Padded(d.year, 4) \o <<"-">> \o Padded(d.month, 2) \o <<"-">> \o Padded(d.day, 2)

\* A bug the heading could have: a heading that itself starts with the literal.
HeadingLineUnreleased(ver, d) ==
    Literal \o <<" ">> \o ver \o <<"\n">>

\* The heading of lines 23-25.
HeadingLine(ver, d) ==
    HeadingOpen \o ver \o HeadingMid \o IsoFormat(d) \o <<"\n">>

\* The link-reference line of line 28.
LinkLine(ver) ==
    <<"[">> \o ver \o LinkMid \o ReleaseUrl \o ver \o <<"\n">>

\* The commit message of line 34 and the tag name of line 35.
CommitMessage(ver) == CommitPrefix \o ver
TagName(ver) == TagPrefix \o ver

\* The body of the loop of lines 18-27, over the lines still to be read.
RECURSIVE PromoteLoop(_, _, _)
PromoteLoop(ls, ver, d) ==
    IF ls = <<>> THEN <<>>
    ELSE IF Matches(ls[1])
         THEN <<ls[1], <<"\n">>, HeadingLine(ver, d)>> \o PromoteLoop(Tail(ls), ver, d)
         ELSE <<ls[1]>> \o PromoteLoop(Tail(ls), ver, d)

\* Bugs the promotion could have.
\* - the blank line is not emitted:
RECURSIVE LoopNoBlank(_, _, _)
LoopNoBlank(ls, ver, d) ==
    IF ls = <<>> THEN <<>>
    ELSE IF Matches(ls[1])
         THEN <<ls[1], HeadingLine(ver, d)>> \o LoopNoBlank(Tail(ls), ver, d)
         ELSE <<ls[1]>> \o LoopNoBlank(Tail(ls), ver, d)
PromoteNoBlank(ls, ver, d) == LoopNoBlank(ls, ver, d) \o <<LinkLine(ver)>>
\* - the link line is appended only when a line matched:
PromoteLinkOnMatch(ls, ver, d) ==
    IF \E i \in 1..Len(ls) : Matches(ls[i])
    THEN PromoteLoop(ls, ver, d) \o <<LinkLine(ver)>>
    ELSE PromoteLoop(ls, ver, d)
\* - the loop stops inserting after the first match:
RECURSIVE LoopFirstOnly(_, _, _, _)
LoopFirstOnly(ls, ver, d, seen) ==
    IF ls = <<>> THEN <<>>
    ELSE IF Matches(ls[1]) /\ ~seen
         THEN <<ls[1], <<"\n">>, HeadingLine(ver, d)>> \o LoopFirstOnly(Tail(ls), ver, d, TRUE)
         ELSE <<ls[1]>> \o LoopFirstOnly(Tail(ls), ver, d, seen)
PromoteFirstOnly(ls, ver, d) == LoopFirstOnly(ls, ver, d, FALSE) \o <<LinkLine(ver)>>
\* - a version that is already in the document is not promoted again:
PromoteDedup(ls, ver, d) ==
    IF \E i \in 1..Len(ls) : ls[i] = LinkLine(ver)
    THEN ls
    ELSE PromoteLoop(ls, ver, d) \o <<LinkLine(ver)>>

\* Lines 16-28: the list `lines` built from the lines read.
Promote(ls, ver, d) == PromoteLoop(ls, ver, d) \o <<LinkLine(ver)>>

(***************************************************************************)
(* State.                                                                  *)
(***************************************************************************)
VARIABLES
    present,    \* CHANGELOG.md exists
    file,       \* the characters of CHANGELOG.md
    today,      \* the system date; line 24 reads it at each match, a run is taken to fall within one day
    pc,         \* position of the script: idle, read, promote, write, add, commit, tag, done, failed
    run,        \* number of invocations so far
    NEW_VER,    \* sys.argv[1] of the current run
    input,      \* change_log.readlines() of the current run
    lines,      \* the list `lines` of the current run
    exitCode,   \* exit status of the current run, -1 while it runs
    index,      \* the staged content of CHANGELOG.md in the git index
    commits,    \* the commits created, oldest first
    tags,       \* the tags created, oldest first
    orig,       \* history: CHANGELOG.md before the first run
    before,     \* history: CHANGELOG.md and the index when the current run started
    steps,      \* history: the steps of the current run, each with its outcome
    written     \* history: the runs that wrote CHANGELOG.md, oldest first

vars == <<present, file, today, pc, run, NEW_VER, input, lines, exitCode,
          index, commits, tags, orig, before, steps, written>>

gitVars == <<index, commits, tags>>

\* The state before the first run, over a set F of file contents.
InitOver(F) ==
    /\ present \in BOOLEAN
    /\ file \in (IF present THEN F ELSE {<<>>})
    /\ today \in Dates
    /\ pc = "idle"
    /\ run = 0
    /\ NEW_VER = NoArg
    /\ input = <<>>
    /\ lines = <<>>
    /\ exitCode = -1
    /\ index = file
    /\ commits = <<>>
    /\ tags = <<>>
    /\ orig = file
    /\ before = [file |-> file, index |-> file]
    /\ steps = <<>>
    /\ written = <<>>

Init == InitOver(Files(RunRawLines, MaxDocLines))

\* A step of the script succeeds.
Ok(step, next) ==
    /\ pc' = next
    /\ steps' = Append(steps, [step |-> step, ok |-> TRUE])

\* A step of the script raises: the uncaught exception ends the interpreter
\* with exit status 1.
Fail(step) ==
    /\ pc' = "failed"
    /\ steps' = Append(steps, [step |-> step, ok |-> FALSE])
    /\ exitCode' = 1

\* The script is started (lines 13-16); arg is sys.argv[1], NoArg when the
\* argument list is empty and sys.argv[1] raises IndexError.
Invoke(arg) ==
    /\ pc \in {"idle", "done", "failed"}
    /\ run < MaxRuns
    /\ run' = run + 1
    /\ before' = [file |-> file, index |-> index]
    /\ input' = <<>>
    /\ lines' = <<>>
    /\ NEW_VER' = arg
    /\ IF arg = NoArg
       THEN /\ pc' = "failed"
            /\ steps' = <<[step |-> "argv", ok |-> FALSE]>>
            /\ exitCode' = 1
       ELSE /\ pc' = "read"
            /\ steps' = <<>>
            /\ exitCode' = -1
    /\ UNCHANGED <<present, file, today, gitVars, orig, written>>

\* Lines 17-18: the file is opened and read whole.
ReadOk ==
    /\ pc = "read"
    /\ present
    /\ input' = ReadLines(file)
    /\ Ok("read", "promote")
    /\ UNCHANGED <<present, file, today, run, NEW_VER, lines, exitCode,
                   gitVars, orig, before, written>>

\* A bug the failing read could have: the file is opened in a mode that
\* empties it.
ReadFailTruncating ==
    /\ pc = "read"
    /\ Fail("read")
    /\ file' = <<>>
    /\ UNCHANGED <<present, today, run, NEW_VER, input, lines,
                   gitVars, orig, before, written>>

\* Lines 17-18: open() or readlines() raises (no file, no permission, bad encoding).
ReadFail ==
    /\ pc = "read"
    /\ Fail("read")
    /\ UNCHANGED <<present, file, today, run, NEW_VER, input, lines,
                   gitVars, orig, before, written>>

\* Bugs the promotion step could have.
\* - a document without a matching line is an error:
PromoteLinesStrict ==
    /\ pc = "promote"
    /\ lines' = Promote(input, NEW_VER, today)
    /\ IF \E i \in 1..Len(input) : Matches(input[i])
       THEN Ok("promote", "write") /\ UNCHANGED exitCode
       ELSE Fail("promote")
    /\ UNCHANGED <<present, file, today, run, NEW_VER, input,
                   gitVars, orig, before, written>>
\* - the file is staged before it is written:
PromoteLinesSkipWrite ==
    /\ pc = "promote"
    /\ lines' = Promote(input, NEW_VER, today)
    /\ Ok("promote", "add")
    /\ UNCHANGED <<present, file, today, run, NEW_VER, input, exitCode,
                   gitVars, orig, before, written>>

\* Lines 18-28: the loop over the lines read, then the link line.
PromoteLines ==
    /\ pc = "promote"
    /\ lines' = Promote(input, NEW_VER, today)
    /\ Ok("promote", "write")
    /\ UNCHANGED <<present, file, today, run, NEW_VER, input, exitCode,
                   gitVars, orig, before, written>>

\* Lines 30-31: the file is opened for writing, which empties it, and the
\* whole list is written.
WriteOk ==
    /\ pc = "write"
    /\ file' = WriteLines(lines)
    /\ present' = TRUE
    /\ Ok("write", "add")
    /\ written' = Append(written, [ver |-> NEW_VER, day |-> today,
                                   input |-> input, lines |-> lines])
    /\ UNCHANGED <<today, run, NEW_VER, input, lines, exitCode,
                   gitVars, orig, before>>

\* Line 30: open() for writing raises (no permission); the file is untouched.
WriteFail ==
    /\ pc = "write"
    /\ Fail("write")
    /\ UNCHANGED <<present, file, today, run, NEW_VER, input, lines,
                   gitVars, orig, before, written>>

\* Line 33: git add exits 0; the file's content is staged.
GitAddOk ==
    /\ pc = "add"
    /\ index' = file
    /\ Ok("add", "commit")
    /\ UNCHANGED <<present, file, today, run, NEW_VER, input, lines, exitCode,
                   commits, tags, orig, before, written>>

\* Line 33: git add exits non-zero; check=True raises CalledProcessError.
GitAddFail ==
    /\ pc = "add"
    /\ Fail("add")
    /\ UNCHANGED <<present, file, today, run, NEW_VER, input, lines,
                   gitVars, orig, before, written>>

\* Line 34: git commit exits 0; the staged content is committed.
GitCommitOk ==
    /\ pc = "commit"
    /\ commits' = Append(commits, [msg |-> CommitMessage(NEW_VER),
                                   content |-> index, run |-> run])
    /\ Ok("commit", "tag")
    /\ UNCHANGED <<present, file, today, run, NEW_VER, input, lines, exitCode,
                   index, tags, orig, before, written>>

\* A bug the failing commit could have: check=False, the script goes on.
GitCommitUnchecked ==
    /\ pc = "commit"
    /\ pc' = "tag"
    /\ steps' = Append(steps, [step |-> "commit", ok |-> FALSE])
    /\ UNCHANGED <<present, file, today, run, NEW_VER, input, lines, exitCode,
                   gitVars, orig, before, written>>

\* Line 34: git commit exits non-zero.
GitCommitFail ==
    /\ pc = "commit"
    /\ Fail("commit")
    /\ UNCHANGED <<present, file, today, run, NEW_VER, input, lines,
                   gitVars, orig, before, written>>

\* Line 35: git tag exits 0; the tag names the last commit. The script ends
\* with exit status 0.
GitTagOk ==
    /\ pc = "tag"
    /\ tags' = Append(tags, [name |-> TagName(NEW_VER),
                             commit |-> Len(commits), run |-> run])
    /\ Ok("tag", "done")
    /\ exitCode' = 0
    /\ UNCHANGED <<present, file, today, run, NEW_VER, input, lines,
                   index, commits, orig, before, written>>

\* Line 35: git tag exits non-zero.
GitTagFail ==
    /\ pc = "tag"
    /\ Fail("tag")
    /\ UNCHANGED <<present, file, today, run, NEW_VER, input, lines,
                   gitVars, orig, before, written>>

Next ==
    \/ \E arg \in Versions \cup {NoArg} : Invoke(arg)
    \/ ReadOk
    \/ ReadFail
    \/ PromoteLines
    \/ WriteOk
    \/ WriteFail
    \/ GitAddOk
    \/ GitAddFail
    \/ GitCommitOk
    \/ GitCommitFail
    \/ GitTagOk
    \/ GitTagFail

\* The runs of the script on a CHANGELOG.md.
Spec == Init /\ [][Next]_vars

\* The transformation alone, over documents with every kind of line: the
\* script is started, reads the file and builds the list `lines`.
InitTransform == InitOver(Files(RawLines, MaxLines))

NextTransform ==
    \/ \E arg \in Versions \cup {NoArg} : Invoke(arg)
    \/ ReadOk
    \/ ReadFail
    \/ PromoteLines

SpecTransform == InitTransform /\ [][NextTransform]_vars

(***************************************************************************)
(* Vocabulary of the properties. It is stated on the characters and does   *)
(* not use the operators that model the script's pattern test or loop.     *)
(***************************************************************************)
\* The line starts, at its first character, with the text "## Unreleased".
StartsWithLiteral(line) ==
    /\ Len(line) >= Len(Literal)
    /\ \A k \in 1..Len(Literal) : line[k] = Literal[k]

\* The positions of the lines of ls that start with "## Unreleased".
MatchIdx(ls) == {i \in 1..Len(ls) : StartsWithLiteral(ls[i])}

\* The number of occurrences of the line x in ls.
Count(x, ls) == Cardinality({i \in 1..Len(ls) : ls[i] = x})

\* The text t ends with the text e.
EndsWith(t, e) ==
    /\ Len(t) >= Len(e)
    /\ SubSeq(t, Len(t) - Len(e) + 1, Len(t)) = e

\* YYYY-MM-DD of the dates of the model, written out.
IsoText(d) ==
    IF d.year = 2024
    THEN <<"2", "0", "2", "4", "-", "0", "3", "-", "1", "5">>
    ELSE <<"2", "0", "2", "6", "-", "1", "1", "-", "0", "3">>

\* `## [<version>] - <date>` and `[<version>]: <url>`, written out.
HeadingOf(ver, d) ==
    <<"#", "#", " ", "[">> \o ver \o <<"]", " ", "-", " ">> \o IsoText(d) \o <<"\n">>
LinkOf(ver) ==
    <<"[">> \o ver \o <<"]", ":", " ">> \o ReleaseUrl \o ver \o <<"\n">>

\* Those of the current run.
ExpectedHeading == HeadingOf(NEW_VER, today)
ExpectedLink == LinkOf(NEW_VER)

\* The current run has completed the step.
Did(step) == \E i \in 1..Len(steps) : steps[i].step = step /\ steps[i].ok

\* The step the current run failed at, "none" when it has not failed.
FailedAt ==
    IF steps # <<>> /\ ~steps[Len(steps)].ok THEN steps[Len(steps)].step ELSE "none"

\* The list `lines` of the current run has been built.
Promoted == Did("promote")

(***************************************************************************)
(* C1. A document with exactly one line matching the `## Unreleased`       *)
(* heading pattern: the output is the input with one blank line and one    *)
(* heading `## [<version>] - <date>` inserted right after the matching     *)
(* line, which is emitted unchanged; every other input line is in the      *)
(* output unchanged and in its original order (the link line follows).     *)
(***************************************************************************)
C1_SingleMatchInsertsOneHeading ==
    (Promoted /\ Cardinality(MatchIdx(input)) = 1) =>
        LET m == CHOOSE i \in MatchIdx(input) : TRUE
        IN /\ Len(lines) = Len(input) + 3
           /\ SubSeq(lines, 1, m) = SubSeq(input, 1, m)
           /\ lines[m + 1] = <<"\n">>
           /\ lines[m + 2] = ExpectedHeading
           /\ SubSeq(lines, m + 3, Len(lines) - 1) = SubSeq(input, m + 1, Len(input))
           /\ Count(ExpectedHeading, lines) = Count(ExpectedHeading, input) + 1

\* A two-line document whose one matching line carries trailing text has
\* been promoted.
C1_Witness ==
    /\ Promoted
    /\ Len(input) = 2
    /\ Cardinality(MatchIdx(input)) = 1
    /\ \E i \in MatchIdx(input) : Len(input[i]) > Len(Literal) + 1
    /\ Len(lines) = 5

(***************************************************************************)
(* C5. As claimed: the heading is inserted after the first matching line   *)
(* only; the output is the input with that one insertion and the trailing  *)
(* link line, later matching lines have nothing inserted after them.       *)
(***************************************************************************)
C5_FirstMatchOnly ==
    Promoted =>
        IF MatchIdx(input) = {}
        THEN lines = input \o <<ExpectedLink>>
        ELSE LET f == CHOOSE i \in MatchIdx(input) : \A j \in MatchIdx(input) : i <= j
             IN lines = SubSeq(input, 1, f) \o <<(<<"\n">>), ExpectedHeading>>
                        \o SubSeq(input, f + 1, Len(input)) \o <<ExpectedLink>>

(***************************************************************************)
(* C5, amended. The heading is inserted after every matching line: the     *)
(* output is the input in order, each matching line followed by a blank    *)
(* line and the version heading, then the trailing link line.              *)
(***************************************************************************)
C5_EveryMatchInserts ==
    Promoted =>
        /\ lines = Flat([i \in 1..Len(input) |->
                            IF StartsWithLiteral(input[i])
                            THEN <<input[i], <<"\n">>, ExpectedHeading>>
                            ELSE <<input[i]>>]) \o <<ExpectedLink>>
        /\ Count(ExpectedHeading, lines)
             = Count(ExpectedHeading, input) + Cardinality(MatchIdx(input))

\* A document with two matching lines has been promoted, and the heading
\* follows the second one too.
C5_Witness ==
    /\ Promoted
    /\ Len(input) = 2
    /\ MatchIdx(input) = {1, 2}
    /\ Len(lines) = 7
    /\ lines[6] = ExpectedHeading

(***************************************************************************)
(* C9. A line triggers the insertion exactly when it starts, at its first  *)
(* character, with `## Unreleased` (any trailing content, terminator       *)
(* included); a line that has the text elsewhere does not. The matched     *)
(* line keeps its trailing content and the inserted heading has none of    *)
(* it.                                                                     *)
(***************************************************************************)
C9_WholeLineMatch ==
    Promoted =>
        \A i \in 1..Len(input) :
            LET pos == i + 2 * Cardinality({j \in MatchIdx(input) : j < i})
            IN /\ pos < Len(lines)
               /\ lines[pos] = input[i]
               /\ IF StartsWithLiteral(input[i])
                  THEN /\ pos + 2 < Len(lines)
                       /\ lines[pos + 1] = <<"\n">>
                       /\ lines[pos + 2] = ExpectedHeading
                  ELSE lines[pos + 1] = (IF i < Len(input) THEN input[i + 1] ELSE ExpectedLink)

\* A document with a line that has leading whitespace before the text and a
\* matching line with trailing text has been promoted.
C9_Witness ==
    /\ Promoted
    /\ \E i \in 1..Len(input) : input[i] = IndentBody \o <<"\n">>
    /\ \E i \in 1..Len(input) : input[i] = WipBody \o <<"\n">>
    /\ Len(lines) = 5

(***************************************************************************)
(* C2. Whatever the document (empty, without a match, with one or with     *)
(* several matches), the last line of the list built is the link line      *)
(* `[<version>]: https://github.com/gershnik/objc-helpers/releases/v       *)
(* <version>`, appended once: the list has one line more than the input    *)
(* lines and the two lines inserted per match; and the file written ends   *)
(* with the text of the link line.                                         *)
(***************************************************************************)
C2_LinkLineLast ==
    Promoted =>
        /\ lines # <<>>
        /\ lines[Len(lines)] = ExpectedLink
        /\ Len(lines) = Len(input) + 2 * Cardinality(MatchIdx(input)) + 1
        /\ Did("write") => EndsWith(file, ExpectedLink)

\* The run on an empty CHANGELOG.md has written the link line alone.
C2_Witness ==
    /\ Did("write")
    /\ input = <<>>
    /\ lines = <<ExpectedLink>>
    /\ file = ExpectedLink

(***************************************************************************)
(* C3. A document with no line matching the heading pattern: the list      *)
(* built is the input lines followed by the link line, nothing else is     *)
(* inserted, changed or dropped; the run does not fail for the missing     *)
(* match: it goes on to write that list and to the git steps, and when it  *)
(* fails it fails at the write or at a git step.                           *)
(***************************************************************************)
C3_NoMatchPassesThrough ==
    (Did("read") /\ MatchIdx(input) = {}) =>
        /\ Promoted => lines = input \o <<ExpectedLink>>
        /\ Did("write") => file = Flat(input) \o ExpectedLink
        /\ pc = "failed" => FailedAt \in {"write", "add", "commit", "tag"}
        /\ pc = "done" => /\ exitCode = 0
                          /\ Did("write") /\ Did("add") /\ Did("commit") /\ Did("tag")

\* A run on a non-empty document without a matching line has ended with
\* exit status 0 and its tag.
C3_Witness ==
    /\ pc = "done"
    /\ exitCode = 0
    /\ input # <<>>
    /\ MatchIdx(input) = {}
    /\ tags # <<>>
    /\ tags[Len(tags)].run = run

(***************************************************************************)
(* C7. When CHANGELOG.md cannot be opened or read, the run ends with a     *)
(* non-zero exit status before any side effect: the file is as it was      *)
(* when the run started, and nothing was staged, committed or tagged.      *)
(***************************************************************************)
C7_ReadFailureHasNoEffect ==
    FailedAt = "read" =>
        /\ pc = "failed"
        /\ exitCode = 1
        /\ steps = <<[step |-> "read", ok |-> FALSE]>>
        /\ file = before.file
        /\ index = before.index
        /\ \A i \in 1..Len(commits) : commits[i].run # run
        /\ \A i \in 1..Len(tags) : tags[i].run # run

\* The read of an existing, non-empty CHANGELOG.md has failed.
C7_Witness ==
    /\ FailedAt = "read"
    /\ present
    /\ file # <<>>
    /\ pc = "failed"

(***************************************************************************)
(* C6. Each git step is checked: a step that exits non-zero is the last    *)
(* step of the run, which ends with a non-zero exit status; the steps      *)
(* completed before it stay applied: the file stays overwritten, a         *)
(* completed stage stays staged, a completed commit stays committed, and   *)
(* nothing after the failed step has happened.                             *)
(***************************************************************************)
C6_GitFailureAborts ==
    /\ \A i \in 1..Len(steps) :
          ~steps[i].ok => (i = Len(steps) /\ pc = "failed" /\ exitCode = 1)
    /\ FailedAt \in {"add", "commit", "tag"} =>
          /\ file = WriteLines(lines)
          /\ written # <<>> /\ written[Len(written)].lines = lines
          /\ \A i \in 1..Len(tags) : tags[i].run # run
    /\ FailedAt = "add" =>
          /\ index = before.index
          /\ \A i \in 1..Len(commits) : commits[i].run # run
    /\ FailedAt = "commit" =>
          /\ index = file
          /\ \A i \in 1..Len(commits) : commits[i].run # run
    /\ FailedAt = "tag" =>
          /\ index = file
          /\ Cardinality({i \in 1..Len(commits) : commits[i].run = run}) = 1
          /\ commits[Len(commits)].run = run
          /\ commits[Len(commits)].content = file

\* The tag step has failed after the commit of the same run was created.
C6_Witness ==
    /\ FailedAt = "tag"
    /\ pc = "failed"
    /\ exitCode = 1
    /\ commits # <<>>
    /\ commits[Len(commits)].run = run
    /\ file # before.file

(***************************************************************************)
(* C8. The steps of a run happen in one order, each at most once and each  *)
(* only after the one before it succeeded: read the whole document, build  *)
(* the list, overwrite the file with it, stage, commit with the message    *)
(* `chore: creating version <version>`, tag `v<version>`. A tag is only    *)
(* created on the commit of its own run, and the content staged and        *)
(* committed is the file as written.                                       *)
(***************************************************************************)
StepOrder == <<"read", "promote", "write", "add", "commit", "tag">>

C8_FixedStepOrder ==
    /\ \/ steps = <<[step |-> "argv", ok |-> FALSE]>>
       \/ /\ Len(steps) <= Len(StepOrder)
          /\ \A i \in 1..Len(steps) : steps[i].step = StepOrder[i]
          /\ \A i \in 1..(Len(steps) - 1) : steps[i].ok
    /\ Did("read") => input = ReadLines(before.file)
    /\ Did("write") => file = WriteLines(lines)
    /\ Did("add") => index = file /\ Did("write")
    /\ Did("commit") =>
          /\ commits # <<>>
          /\ commits[Len(commits)] =
                [msg |-> <<"c", "h", "o", "r", "e", ":", " ", "c", "r", "e", "a", "t", "i", "n", "g", " ", "v", "e", "r", "s", "i", "o", "n", " ">> \o NEW_VER,
                 content |-> file, run |-> run]
    /\ Did("tag") =>
          /\ tags # <<>>
          /\ tags[Len(tags)] = [name |-> <<"v">> \o NEW_VER, commit |-> Len(commits), run |-> run]
    /\ \A i \in 1..Len(tags) :
          /\ tags[i].commit \in 1..Len(commits)
          /\ commits[tags[i].commit].run = tags[i].run
    /\ Cardinality({i \in 1..Len(commits) : commits[i].run = run}) <= 1
    /\ Cardinality({i \in 1..Len(tags) : tags[i].run = run}) <= 1

\* A run has completed all six steps and its tag names its commit.
C8_Witness ==
    /\ pc = "done"
    /\ Len(steps) = 6
    /\ tags # <<>>
    /\ tags[Len(tags)].run = run
    /\ commits[tags[Len(tags)].commit].content = file
    /\ MatchIdx(input) # {}

(***************************************************************************)
(* C4. A run that promotes with the version and date of the run that last  *)
(* wrote the file works on that run's output.                              *)
(***************************************************************************)
\* The current run has written the file itself.
WroteNow == Did("write")

\* A run before the current one wrote the file; PrevWrite is the last such.
HasPrevWrite == Len(written) >= (IF WroteNow THEN 2 ELSE 1)
PrevWrite == written[IF WroteNow THEN Len(written) - 1 ELSE Len(written)]

SameAgain ==
    /\ Promoted
    /\ HasPrevWrite
    /\ PrevWrite.ver = NEW_VER
    /\ PrevWrite.day = today

(***************************************************************************)
(* C4. As claimed: promoting twice with the same version and date yields   *)
(* a document with the heading twice and the link line twice, and the      *)
(* second output differs from the first.                                   *)
(***************************************************************************)
C4_HeadingAndLinkTwice ==
    SameAgain =>
        /\ Count(ExpectedHeading, lines) = 2
        /\ Count(ExpectedLink, lines) = 2
        /\ lines # PrevWrite.lines

(***************************************************************************)
(* C4, amended. The promotion is not idempotent: the second promotion,     *)
(* run on the output of the first with the same version and date, finds    *)
(* as many matching lines as the first and inserts the heading once more   *)
(* after each of them (none when no line matches, twice in all when one    *)
(* line matches and the document had no such heading), and appends the     *)
(* link text once more, so that the text written ends with it twice;       *)
(* nothing is de-duplicated and the second output differs from the first.  *)
(***************************************************************************)
C4_NotIdempotent ==
    SameAgain =>
        LET k == Cardinality(MatchIdx(input))
        IN /\ input = ReadLines(WriteLines(PrevWrite.lines))
           /\ lines # PrevWrite.lines
           /\ WriteLines(lines) # WriteLines(PrevWrite.lines)
           /\ Len(lines) = Len(input) + 2 * k + 1
           /\ k = Cardinality(MatchIdx(PrevWrite.input))
           /\ Count(ExpectedHeading, PrevWrite.lines)
                = Count(ExpectedHeading, PrevWrite.input) + k
           /\ Count(ExpectedHeading, lines) = Count(ExpectedHeading, PrevWrite.lines) + k
           /\ (k = 1 /\ Count(ExpectedHeading, PrevWrite.input) = 0)
                => Count(ExpectedHeading, lines) = 2
           /\ EndsWith(WriteLines(lines), ExpectedLink \o ExpectedLink)

\* The second of two runs with the same version on a document with one
\* matching line has written the heading twice.
C4_Witness ==
    /\ SameAgain
    /\ WroteNow
    /\ Cardinality(MatchIdx(input)) = 1
    /\ Count(ExpectedHeading, lines) = 2
    /\ Count(ExpectedHeading, ReadLines(file)) = 2

(***************************************************************************)
(* C10. On a CHANGELOG.md that starts with one line matching the heading   *)
(* pattern, after any number of runs that wrote the file: the lines the    *)
(* runs inserted do not match, the file still has one matching line and    *)
(* every run found one and inserted one heading; below the matching line   *)
(* the headings stand in reverse run order (blank lines aside), and the    *)
(* file ends with the link texts in run order.                             *)
(***************************************************************************)
NotBlank(line) == line # <<"\n">>

C10_HeadingsNewestFirstLinksOldestFirst ==
    Cardinality(MatchIdx(ReadLines(orig))) = 1 =>
        LET fl == ReadLines(file)
            n == Len(written)
        IN /\ Cardinality(MatchIdx(fl)) = 1
           /\ \A r \in 1..n :
                 /\ Cardinality(MatchIdx(written[r].input)) = 1
                 /\ Len(written[r].lines) = Len(written[r].input) + 3
           /\ LET u == CHOOSE i \in 1..Len(fl) : StartsWithLiteral(fl[i])
                  below == SelectSeq(SubSeq(fl, u + 1, Len(fl)), NotBlank)
              IN /\ Len(below) >= n
                 /\ \A k \in 1..n :
                       below[k] = HeadingOf(written[n + 1 - k].ver, written[n + 1 - k].day)
           /\ EndsWith(file, Flat([r \in 1..n |-> LinkOf(written[r].ver)]))

\* Two runs with different versions have completed on a document with one
\* matching line.
C10_Witness ==
    /\ Cardinality(MatchIdx(ReadLines(orig))) = 1
    /\ Len(written) = 2
    /\ written[1].ver # written[2].ver
    /\ pc = "done"
    /\ Len(tags) = 2

====
